---- MODULE Spec2Model ----
(***************************************************************************)
(* Duplicate-aware license plate reconciliation                            *)
(* (app/license_plate_service_v2.py, class LicensePlateService) and plate  *)
(* text validation (app/utils/plate_validator.py, class PlateValidator).   *)
(*                                                                         *)
(* Time is counted in whole seconds.  Confidence values are counted in     *)
(* thousandths (904 stands for 0.904), so that round(confidence, 2) is a   *)
(* real conversion.  The table license_plates is the sequence rows, in     *)
(* insertion order.                                                        *)
(***************************************************************************)
EXTENDS Integers, Sequences, FiniteSets, TLC

VARIABLES
    now,             \* the wall clock: time.time(), datetime.now(), SQL NOW()
    ticks,           \* how often the clock has advanced
    rows,            \* table license_plates
    next_id,         \* the table's AUTO_INCREMENT counter
    last_save_time,  \* LicensePlateService.last_save_time
    calls,           \* number of service calls made so far
    call,            \* the last service call: its arguments and what it met
    ret,             \* the value the last service call returned
    hits,            \* per sighting (by position in rows): the calls that wrote it
    seen,            \* per sighting: the observations reconciled into it
    last_accepted,   \* time of the last observation saved through the throttle
    proc,            \* concurrent callers: where each is in add_or_update_detection
    raw_text,        \* the text handed to PlateValidator.validate_and_normalize
    validated,       \* what validate_and_normalize returned for raw_text
    logs_queue,      \* DetectionLogger.logs_queue
    log_file,        \* the "detections" list of the day's log file
    running,         \* DetectionLogger.running
    batch_thread,    \* DetectionLogger.batch_thread: a position in loops, or 0
    loops,           \* the threads started on _batch_processor_loop
    since_save,      \* time.time() - DetectionLogger.last_save_time, up to save_interval
    joiner,          \* the caller of stop_batch_processor: idle, or waiting in join
    store_calls      \* the calls the batch runs have made on the service

vars == <<now, ticks, rows, next_id, last_save_time, calls, call, ret, hits, seen,
          last_accepted, proc, raw_text, validated, logs_queue, log_file, running,
          batch_thread, loops, since_save, joiner, store_calls>>

\* the state of the reconciler
service_vars == <<now, ticks, rows, next_id, last_save_time, calls, call, ret, hits, seen,
                  last_accepted, proc>>

\* the state of a validation
validator_vars == <<raw_text, validated>>

\* the state of the detection logger
logger_vars == <<logs_queue, log_file, running, batch_thread, loops, since_save,
                 joiner, store_calls>>

----------------------------------------------------------------------------
(* Bounds of the model *)

MaxCalls == 3
MaxTicks == 3
MaxValueCalls == 2
MaxValueTicks == 1
MaxConcurrentCalls == 2
MaxConcurrentTicks == 1
MaxChanged == 1
MaxPlaceholderCalls == 3
MaxReviewCalls == 3
StartTime == 1000

(* Program constants *)

save_interval == 3
time_window_minutes == 10

(* Inputs *)

PlateTexts == {"ABC 123", "518 UOZ"}
Confidences == {700, 904}
Locations == {"Gate1", "Gate2"}
CoordinateInputs == {<<>>, <<1, 2, 3, 4>>, <<5, 6, 7, 8>>}
TickSteps == {2, 3, 598}

\* the confidence, location and coordinates of the observations of Spec and
\* SpecConcurrent
FixedObservation ==
    [confidence |-> 904, location |-> "Gate1", coordinates |-> <<1, 2, 3, 4>>]
FixedConfidence == FixedObservation.confidence
FixedLocation == FixedObservation.location
FixedCoordinates == FixedObservation.coordinates

----------------------------------------------------------------------------
(* Values *)

\* SQL NULL in a JSON column
SqlNull == [null |-> TRUE]

\* json.dumps({"x": c[0], "y": c[1], "w": c[2], "h": c[3]})
JsonDumps(c) == [x |-> c[1], y |-> c[2], w |-> c[3], h |-> c[4]]

\* Python truthiness of the coordinates argument: None and () are falsy
Truthy(coordinates) == coordinates # <<>>

\* round(confidence, 2) on thousandths: to the nearest hundredth, a tie to the
\* even hundredth
Round2(c) ==
    LET q == c \div 10
        r == c % 10
    IN  IF r < 5 THEN q * 10
        ELSE IF r > 5 THEN (q + 1) * 10
        ELSE IF q % 2 = 0 THEN q * 10 ELSE (q + 1) * 10

\* last_seen of a new row.  The INSERT names no last_seen and the table
\* definition is not part of the sources: lastSeen is the time of the most
\* recent reconciled observation, here the insert
InsertLastSeen(t) == t

\* datetime.now() written to last_seen on update
UpdateLastSeen(t) == t

\* the position in the table of the row with this id (0 when there is none)
IndexOf(tbl, id) ==
    IF \E i \in 1..Len(tbl) : tbl[i].id = id
    THEN CHOOSE i \in 1..Len(tbl) : tbl[i].id = id
    ELSE 0

\* (mutant) the interval is compared one second short
CanSaveDetectionEarly(current_time) ==
    (current_time - last_save_time) >= save_interval - 1

\* the positive verdict of the throttle
CanSaveDetection(current_time) ==
    (current_time - last_save_time) >= save_interval

\* (mutant) the time condition of the WHERE clause is left out
InWindowAnyTime(row, plate_text, minutes, t) ==
    row.plate_text = plate_text

\* WHERE plate_text = %s AND last_seen >= DATE_SUB(NOW(), INTERVAL %s MINUTE)
InWindow(row, plate_text, minutes, t) ==
    /\ row.plate_text = plate_text
    /\ row.last_seen >= t - minutes * 60

\* (mutant) ORDER BY last_seen ASC LIMIT 1
FindRecentDetectionAscending(tbl, plate_text, minutes, t) ==
    LET matching == {i \in 1..Len(tbl) : tbl[i].plate_text = plate_text
                                          /\ tbl[i].last_seen >= t - minutes * 60}
    IN  {i \in matching : \A j \in matching : tbl[j].last_seen >= tbl[i].last_seen}

\* ORDER BY last_seen DESC LIMIT 1: the rows the query may return (more than
\* one only when the latest last_seen is shared), as positions in the table
FindRecentDetection(tbl, plate_text, minutes, t) ==
    LET matching == {i \in 1..Len(tbl) : InWindow(tbl[i], plate_text, minutes, t)}
    IN  {i \in matching : \A j \in matching : tbl[j].last_seen <= tbl[i].last_seen}

----------------------------------------------------------------------------
(* The UPDATE path: update_data as a row with the changed columns replaced *)

\* best_confidence (and best_coordinates) are taken when the new value is better
IsBetter(confidence, best_conf) == confidence > best_conf

\* the guard of update_data['best_coordinates']
TakesBestCoordinates(confidence, best_conf, coordinates) ==
    IsBetter(confidence, best_conf) /\ Truthy(coordinates)

\* the guard of update_data['coordinates']
TakesCoordinates(coordinates) == Truthy(coordinates)

\* (mutant) the count of the snapshot is written back as it is
UpdatedCountSame(recent) == recent.detection_count

\* "Always increment detection count"
UpdatedCount(recent) == recent.detection_count + 1

\* (mutant) the update puts the status back to detected
UpdatedRowDetected(old, recent, confidence, location, coordinates, t) ==
    [old EXCEPT
        !.detection_count = UpdatedCount(recent),
        !.best_confidence =
            IF IsBetter(confidence, recent.best_confidence)
            THEN confidence ELSE @,
        !.best_coordinates =
            IF TakesBestCoordinates(confidence, recent.best_confidence, coordinates)
            THEN JsonDumps(coordinates) ELSE @,
        !.confidence = confidence,
        !.coordinates =
            IF TakesCoordinates(coordinates) THEN JsonDumps(coordinates) ELSE @,
        !.latest_location = location,
        !.status = "detected",
        !.last_seen = UpdateLastSeen(t)]

\* the row after "UPDATE license_plates SET <update_data> WHERE id = plate_id"
\* with update_data built from the snapshot recent of the matched row
UpdatedRow(old, recent, confidence, location, coordinates, t) ==
    [old EXCEPT
        !.detection_count = UpdatedCount(recent),
        !.best_confidence =
            IF IsBetter(confidence, recent.best_confidence)
            THEN confidence ELSE @,
        !.best_coordinates =
            IF TakesBestCoordinates(confidence, recent.best_confidence, coordinates)
            THEN JsonDumps(coordinates) ELSE @,
        !.confidence = confidence,
        !.coordinates =
            IF TakesCoordinates(coordinates) THEN JsonDumps(coordinates) ELSE @,
        !.latest_location = location,
        !.last_seen = UpdateLastSeen(t)]

(* The CREATE path *)

\* (mutant) the confidence is inserted as it came
NewRowUnrounded(id, plate_text, confidence, location, coordinates, t) ==
    LET coords_json == IF Truthy(coordinates) THEN JsonDumps(coordinates) ELSE SqlNull
    IN  [id |-> id,
         plate_text |-> plate_text,
         confidence |-> confidence,
         best_confidence |-> confidence,
         location |-> location,
         coordinates |-> coords_json,
         best_coordinates |-> coords_json,
         status |-> "detected",
         detection_count |-> 1,
         first_location |-> location,
         latest_location |-> location,
         last_seen |-> InsertLastSeen(t)]

\* the row INSERTed by _create_new_detection
NewRow(id, plate_text, confidence, location, coordinates, t) ==
    LET coords_json == IF Truthy(coordinates) THEN JsonDumps(coordinates) ELSE SqlNull
    IN  [id |-> id,
         plate_text |-> plate_text,
         confidence |-> Round2(confidence),
         best_confidence |-> Round2(confidence),
         location |-> location,
         coordinates |-> coords_json,
         best_coordinates |-> coords_json,
         status |-> "detected",
         detection_count |-> 1,
         first_location |-> location,
         latest_location |-> location,
         last_seen |-> InsertLastSeen(t)]

\* the result of find_recent_detection as add_or_update_detection sees it: an
\* exception in the lookup is caught there and None is returned
LookupResult(tbl, plate_text, t, findFails) ==
    IF findFails THEN {} ELSE FindRecentDetection(tbl, plate_text, time_window_minutes, t)

----------------------------------------------------------------------------
(* Plate text validation (app/utils/plate_validator.py, class               *)
(* PlateValidator).  A text is the sequence of its characters, each a       *)
(* one-character string.                                                    *)

Digits == {"0", "1", "2", "3", "4", "5", "6", "7", "8", "9"}

UpperLetters ==
    <<"A", "B", "C", "D", "E", "F", "G", "H", "I", "J", "K", "L", "M",
      "N", "O", "P", "Q", "R", "S", "T", "U", "V", "W", "X", "Y", "Z">>

LowerLetters ==
    <<"a", "b", "c", "d", "e", "f", "g", "h", "i", "j", "k", "l", "m",
      "n", "o", "p", "q", "r", "s", "t", "u", "v", "w", "x", "y", "z">>

Letters == {UpperLetters[i] : i \in DOMAIN UpperLetters}

\* the characters str.strip() removes and the regular expression class \s matches
Whitespace == {" ", "\t", "\n"}

\* the characters the regular expression class [A-Z0-9\s] matches
FormatCharacters == Letters \cup Digits \cup Whitespace

\* the argument None
PyNone == <<"None">>

\* the second element of the result of a rejected text
NoText == PyNone

\* str.upper(), one character
UpperChar(c) ==
    IF \E i \in DOMAIN LowerLetters : LowerLetters[i] = c
    THEN UpperLetters[CHOOSE i \in DOMAIN LowerLetters : LowerLetters[i] = c]
    ELSE c

Upper(text) == [i \in DOMAIN text |-> UpperChar(text[i])]

\* str.strip(): leading and trailing whitespace removed
Strip(text) ==
    LET inner == {i \in DOMAIN text : text[i] \notin Whitespace}
    IN  IF inner = {} THEN <<>>
        ELSE LET first == CHOOSE i \in inner : \A j \in inner : i <= j
                 last == CHOOSE i \in inner : \A j \in inner : j <= i
             IN  SubSeq(text, first, last)

\* ' ' in text
HasSpace(text) == \E i \in DOMAIN text : text[i] = " "

RECURSIVE SplitFrom(_, _, _)
SplitFrom(text, i, part) ==
    IF i > Len(text) THEN <<part>>
    ELSE IF text[i] = " " THEN <<part>> \o SplitFrom(text, i + 1, <<>>)
    ELSE SplitFrom(text, i + 1, Append(part, text[i]))

\* text.split(' ')
Split(text) == SplitFrom(text, 1, <<>>)

\* the if/elif chain over one character: the first branch whose character it
\* is gives the corrected character, the else branch the character itself
FixedChar(char, fixes) ==
    IF \E k \in DOMAIN fixes : fixes[k][1] = char
    THEN fixes[CHOOSE k \in DOMAIN fixes :
                 /\ fixes[k][1] = char
                 /\ \A j \in 1..(k - 1) : fixes[j][1] # char][2]
    ELSE char

\* the loop "for char in part"
FixedPart(part, fixes) == [i \in DOMAIN part |-> FixedChar(part[i], fixes)]

\* the branches for the first part (should be numbers), in the order of the code
Part1Fixes ==
    << <<"O", "0">>, <<"I", "1">>, <<"S", "5">>, <<"J", "1">>,
       <<"G", "6">>, <<"B", "8">>, <<"Z", "2">>, <<"T", "7">> >>

\* the branches for the second part (should be letters), in the order of the code
Part2Fixes ==
    << <<"0", "O">>, <<"1", "I">>, <<"5", "S">>, <<"4", "A">>,
       <<"6", "G">>, <<"8", "B">>, <<"2", "Z">>, <<"7", "T">> >>

\* the length of one part of a plate
PartLength == 3

\* the lengths a cleaned text may have
MinCleanLength == 6
MaxCleanLength == 7

\* (mutant) the space is put after the second character
FixSpacingEarly(text) ==
    IF HasSpace(text) \/ Len(text) # 2 * PartLength THEN text
    ELSE SubSeq(text, 1, 2) \o <<" ">> \o SubSeq(text, 3, Len(text))

\* _fix_spacing
FixSpacing(text) ==
    IF HasSpace(text) \/ Len(text) # 2 * PartLength THEN text
    ELSE SubSeq(text, 1, PartLength) \o <<" ">> \o SubSeq(text, PartLength + 1, Len(text))

\* (mutant) both parts are corrected toward numbers
FixOcrErrorsNumbers(text) ==
    IF ~HasSpace(text) THEN text
    ELSE LET parts == Split(text)
         IN  IF Len(parts) # 2 \/ Len(parts[1]) # PartLength \/ Len(parts[2]) # PartLength
             THEN text
             ELSE FixedPart(parts[1], Part1Fixes) \o <<" ">>
                  \o FixedPart(parts[2], Part1Fixes)

\* (mutant) the first part is corrected toward letters, the second toward numbers
FixOcrErrorsSwapped(text) ==
    IF ~HasSpace(text) THEN text
    ELSE LET parts == Split(text)
         IN  IF Len(parts) # 2 \/ Len(parts[1]) # PartLength \/ Len(parts[2]) # PartLength
             THEN text
             ELSE FixedPart(parts[1], Part2Fixes) \o <<" ">>
                  \o FixedPart(parts[2], Part1Fixes)

\* _fix_ocr_errors
FixOcrErrors(text) ==
    IF ~HasSpace(text) THEN text
    ELSE LET parts == Split(text)
         IN  IF Len(parts) # 2 \/ Len(parts[1]) # PartLength \/ Len(parts[2]) # PartLength
             THEN text
             ELSE FixedPart(parts[1], Part1Fixes) \o <<" ">>
                  \o FixedPart(parts[2], Part2Fixes)

AllIn(text, from, to, class) == \A i \in from..to : text[i] \in class

\* re.match(pattern, text) for a pattern of three characters of class first, \s,
\* three characters of class second, and $ (the end, or a newline at the end)
MatchesPattern(text, first, second) ==
    /\ \/ Len(text) = 2 * PartLength + 1
       \/ Len(text) = 2 * PartLength + 2 /\ text[Len(text)] = "\n"
    /\ AllIn(text, 1, PartLength, first)
    /\ text[PartLength + 1] \in Whitespace
    /\ AllIn(text, PartLength + 2, 2 * PartLength + 1, second)

\* (mutant) the characters of the parts are not looked at
IsValidFormatShape(text) ==
    /\ text # <<>>
    /\ HasSpace(text)
    /\ LET parts == Split(text)
       IN  /\ Len(parts) = 2
           /\ Len(parts[1]) = PartLength
           /\ Len(parts[2]) = PartLength

\* _is_valid_format
IsValidFormat(text) ==
    /\ text # <<>>
    /\ HasSpace(text)
    /\ LET parts == Split(text)
       IN  /\ Len(parts) = 2
           /\ Len(parts[1]) = PartLength
           /\ Len(parts[2]) = PartLength
    /\ ~ \E i \in DOMAIN text : text[i] \notin FormatCharacters
    /\ \/ MatchesPattern(text, Digits, Letters)
       \/ MatchesPattern(text, Letters, Digits)

\* re.match(r'^[0-9]{3}$', part) and re.match(r'^[A-Z]{3}$', part), by class
MatchesPart(part, class) ==
    /\ \/ Len(part) = PartLength
       \/ Len(part) = PartLength + 1 /\ part[Len(part)] = "\n"
    /\ AllIn(part, 1, PartLength, class)

\* (mutant) the two types are exchanged
GetPlateTypeExchanged(text) ==
    IF ~IsValidFormat(text) THEN "invalid"
    ELSE LET parts == Split(text)
         IN  IF MatchesPart(parts[1], Letters) /\ MatchesPart(parts[2], Digits)
             THEN "numeric_alpha"
             ELSE IF MatchesPart(parts[1], Digits) /\ MatchesPart(parts[2], Letters)
             THEN "alpha_numeric"
             ELSE "unknown"

\* _get_plate_type
GetPlateType(text) ==
    IF ~IsValidFormat(text) THEN "invalid"
    ELSE LET parts == Split(text)
         IN  IF MatchesPart(parts[1], Digits) /\ MatchesPart(parts[2], Letters)
             THEN "numeric_alpha"
             ELSE IF MatchesPart(parts[1], Letters) /\ MatchesPart(parts[2], Digits)
             THEN "alpha_numeric"
             ELSE "unknown"

\* (mutant) the corrected variations are tried before the others
CandidatesCorrectedFirst(clean_text) ==
    <<FixOcrErrors(FixSpacing(clean_text)),
      FixOcrErrors(clean_text),
      clean_text,
      FixSpacing(clean_text)>>

\* the variations tried, in order
Candidates(clean_text) ==
    <<clean_text,
      FixSpacing(clean_text),
      FixOcrErrors(clean_text),
      FixOcrErrors(FixSpacing(clean_text))>>

\* the result (is_valid, normalized_text, plate_type); built: the number of
\* variations built before the return
Result(is_valid, normalized_text, plate_type, built) ==
    [is_valid |-> is_valid, normalized |-> normalized_text, plate_type |-> plate_type,
     built |-> built]

Rejected(built) == Result(FALSE, NoText, "invalid", built)

\* (mutant) the length of the cleaned text is not looked at
LengthAllowedAny(clean_text) == TRUE

\* "if len(clean_text) < 6 or len(clean_text) > 7: return False, None, 'invalid'"
LengthAllowed(clean_text) ==
    ~(Len(clean_text) < MinCleanLength \/ Len(clean_text) > MaxCleanLength)

\* the cleaned text of an argument
Clean(plate_text) == Upper(Strip(plate_text))

\* (mutant) the type is that of the cleaned text
TypedTextClean(clean_text, candidate) == clean_text

\* the text whose type is returned: "cls._get_plate_type(candidate)"
TypedText(clean_text, candidate) == candidate

\* validate_and_normalize
ValidateAndNormalize(plate_text) ==
    IF plate_text = <<>> \/ plate_text = PyNone THEN Rejected(0)
    ELSE LET clean_text == Clean(plate_text)
         IN  IF ~LengthAllowed(clean_text) THEN Rejected(0)
             ELSE LET candidates == Candidates(clean_text)
                      matching == {i \in DOMAIN candidates : IsValidFormat(candidates[i])}
                  IN  IF matching = {} THEN Rejected(Len(candidates))
                      ELSE LET first == CHOOSE i \in matching : \A j \in matching : i <= j
                           IN  Result(TRUE, candidates[first],
                                      GetPlateType(TypedText(clean_text,
                                                             candidates[first])),
                                      Len(candidates))

\* validated before validate_and_normalize has returned
NotValidated == Result(FALSE, NoText, "pending", 0)

----------------------------------------------------------------------------
(* Return values.  add_or_update_detection returns (plate_id, is_new_record); *)
(* add_detection_if_allowed returns plate_id or None (isNone; isNew is then   *)
(* not part of the value and is kept FALSE).                                  *)

Tuple(plate_id, is_new) == [id |-> plate_id, isNew |-> is_new, isNone |-> FALSE]

None == [id |-> 0, isNew |-> FALSE, isNone |-> TRUE]

\* "return plate_id if plate_id > 0 else None"
IdOrNone(plate_id) == IF plate_id > 0 THEN Tuple(plate_id, FALSE) ELSE None

Returned(fn, plate_id, is_new) ==
    IF fn = "add_detection_if_allowed" THEN IdOrNone(plate_id)
    ELSE Tuple(plate_id, is_new)

\* what add_or_update_detection returns when update_plate returned False
UpdateFailureId(plate_id) == plate_id

\* what add_or_update_detection returns when _create_new_detection returned -1
CreateFailureId == -1

\* a store write marks the time of the call as the last save
MarkSaved(current_time) == current_time

\* (mutant) a failed write marks the time of the call as well
MarkFailedSaved(current_time) == current_time

\* a failed write assigns nothing to last_save_time
MarkFailed(current_time) == last_save_time

----------------------------------------------------------------------------
(* The text generated for a call without plate text:                        *)
(* f"PLATE_{count + 1:04d}" with count the result of SELECT COUNT.       *)

DigitChars == <<"0", "1", "2", "3", "4", "5", "6", "7", "8", "9">>

\* the decimal digits of a number that is not negative
RECURSIVE Decimal(_)
Decimal(n) ==
    IF n < 10 THEN DigitChars[n + 1]
    ELSE Decimal(n \div 10) \o DigitChars[(n % 10) + 1]

\* how many decimal digits a number has
RECURSIVE DecimalLength(_)
DecimalLength(n) == IF n < 10 THEN 1 ELSE 1 + DecimalLength(n \div 10)

RECURSIVE Zeros(_)
Zeros(k) == IF k <= 0 THEN "" ELSE "0" \o Zeros(k - 1)

\* the format specification 04d: zeros on the left up to a width of 4
PlaceholderWidth == 4
ZeroPadded(n) == Zeros(PlaceholderWidth - DecimalLength(n)) \o Decimal(n)

\* SELECT COUNT FROM license_plates
CountRows(tbl) == Len(tbl)

\* (mutant) the number of the text is the count itself
PlaceholderTextOfCount(count) == "PLATE_" \o ZeroPadded(count)

PlaceholderText(count) == "PLATE_" \o ZeroPadded(count + 1)

\* what add_or_update_detection returns from its except branch
ExceptionId == -1

----------------------------------------------------------------------------
(* add_or_update_detection, one whole call, entered directly or through     *)
(* add_detection_if_allowed (fn).  findFails: the SELECT of                 *)
(* find_recent_detection raises; writeFails: the INSERT of                  *)
(* _create_new_detection or the UPDATE of update_plate raises.              *)

\* an observation as the caller passed it: its confidence and its coordinates
Observation(confidence, coordinates) ==
    [confidence |-> confidence, coordinates |-> coordinates]

AddOrUpdateBody(fn, given_text, confidence, location, coordinates, findFails, writeFails) ==
    LET current_time == now
        plate_text == IF given_text = "" THEN PlaceholderText(CountRows(rows))
                      ELSE given_text
        found == LookupResult(rows, plate_text, current_time, findFails)
        Args(path, matched) ==
            [fn |-> fn, given |-> given_text,
             plate_text |-> plate_text, confidence |-> confidence,
             location |-> location, coordinates |-> coordinates,
             findFails |-> findFails, writeFails |-> writeFails,
             at |-> current_time, path |-> path, matched |-> matched]
        Accepted(saved) ==
            IF saved /\ fn = "add_detection_if_allowed" THEN current_time
            ELSE last_accepted
    IN  /\ calls' = calls + 1
        /\ UNCHANGED <<now, ticks, proc>>
        /\ UNCHANGED validator_vars
        /\ UNCHANGED logger_vars
        /\ last_accepted' = Accepted(~writeFails)
        /\ IF found # {}
           THEN \E i \in found :
                  LET recent == rows[i]
                      plate_id == recent.id
                  IN  /\ call' = Args("update", plate_id)
                      /\ IF ~writeFails
                         THEN /\ rows' = [rows EXCEPT ![i] =
                                     UpdatedRow(rows[i], recent, confidence, location,
                                                coordinates, now)]
                              /\ last_save_time' = MarkSaved(current_time)
                              /\ hits' = [hits EXCEPT ![i] = @ + 1]
                              /\ seen' = [seen EXCEPT ![i] =
                                     @ \cup {Observation(confidence, coordinates)}]
                              /\ ret' = Returned(fn, plate_id, FALSE)
                         ELSE /\ ret' = Returned(fn, UpdateFailureId(plate_id), FALSE)
                              /\ last_save_time' = MarkFailed(current_time)
                              /\ UNCHANGED <<rows, hits, seen>>
                      /\ UNCHANGED next_id
           ELSE /\ call' = Args("create", 0)
                /\ IF ~writeFails
                   THEN /\ rows' = Append(rows, NewRow(next_id, plate_text, confidence,
                                                       location, coordinates, now))
                        /\ next_id' = next_id + 1
                        /\ last_save_time' = MarkSaved(current_time)
                        /\ hits' = Append(hits, 1)
                        /\ seen' = Append(seen, {Observation(confidence, coordinates)})
                        /\ ret' = Returned(fn, next_id, TRUE)
                   ELSE /\ ret' = Returned(fn, CreateFailureId, FALSE)
                        /\ last_save_time' = MarkFailed(current_time)
                        /\ UNCHANGED <<rows, next_id, hits, seen>>

\* add_or_update_detection called without plate text when the SELECT COUNT
\* raises: the except branch returns
AddOrUpdateCountFails(fn, confidence, location, coordinates) ==
    /\ calls' = calls + 1
    /\ call' = [fn |-> fn, given |-> "", plate_text |-> "", confidence |-> confidence,
                location |-> location, coordinates |-> coordinates,
                findFails |-> FALSE, writeFails |-> FALSE,
                at |-> now, path |-> "error", matched |-> 0]
    /\ ret' = Returned(fn, ExceptionId, FALSE)
    /\ UNCHANGED <<now, ticks, rows, next_id, last_save_time, hits, seen, last_accepted,
                   proc>>
    /\ UNCHANGED validator_vars
    /\ UNCHANGED logger_vars

\* add_detection_if_allowed: too soon after the last save nothing is attempted
AddDetectionIfAllowedBody(plate_text, confidence, location, coordinates, findFails, writeFails) ==
    IF ~CanSaveDetection(now)
    THEN /\ calls' = calls + 1
         /\ call' = [fn |-> "add_detection_if_allowed", given |-> plate_text,
                     plate_text |-> plate_text, confidence |-> confidence,
                     location |-> location, coordinates |-> coordinates,
                     findFails |-> FALSE, writeFails |-> FALSE,
                     at |-> now, path |-> "skip", matched |-> 0]
         /\ ret' = None
         /\ UNCHANGED <<now, ticks, rows, next_id, last_save_time, hits, seen, last_accepted,
                        proc>>
         /\ UNCHANGED validator_vars
         /\ UNCHANGED logger_vars
    ELSE AddOrUpdateBody("add_detection_if_allowed", plate_text, confidence,
                         location, coordinates, findFails, writeFails)

----------------------------------------------------------------------------
(* Spec: the reconciler over time.  Observations of two plates arrive       *)
(* directly or through the throttle while the clock advances; confidence,   *)
(* location and coordinates are those of one camera position.               *)

\* a direct call of add_or_update_detection (also what the legacy add_detection does)
AddOrUpdateDetection ==
    /\ calls < MaxCalls
    /\ \E plate_text \in PlateTexts, findFails \in BOOLEAN, writeFails \in BOOLEAN :
            AddOrUpdateBody("add_or_update_detection", plate_text, FixedConfidence,
                            FixedLocation, FixedCoordinates, findFails, writeFails)

AddDetectionIfAllowed ==
    /\ calls < MaxCalls
    /\ \E plate_text \in PlateTexts, findFails \in BOOLEAN, writeFails \in BOOLEAN :
            AddDetectionIfAllowedBody(plate_text, FixedConfidence, FixedLocation,
                                      FixedCoordinates, findFails, writeFails)

\* time passes between calls
Tick ==
    /\ ticks < MaxTicks
    /\ \E d \in TickSteps : now' = now + d
    /\ ticks' = ticks + 1
    /\ UNCHANGED <<rows, next_id, last_save_time, calls, call, ret, hits, seen,
                   last_accepted, proc>>
    /\ UNCHANGED validator_vars
    /\ UNCHANGED logger_vars

\* the callers of SpecConcurrent
Callers == {1, 2}

\* a caller outside add_or_update_detection
Idle == [pc |-> "idle", plate_text |-> "", findFails |-> FALSE, writeFails |-> FALSE,
         current_time |-> 0, recent |-> <<>>, path |-> "none",
         plate_id |-> 0, is_new |-> FALSE]

NoCall == [fn |-> "none", given |-> "", plate_text |-> "", confidence |-> 0,
           location |-> "",
           coordinates |-> <<>>, findFails |-> FALSE, writeFails |-> FALSE,
           at |-> 0, path |-> "none", matched |-> 0]

\* DetectionLogger.__init__
save_interval_log == 3
batch_interval == 10

\* the caller of stop_batch_processor between two calls
NotJoining == [pc |-> "idle", waited |-> 0]

LoggerInit ==
    /\ logs_queue = <<>>
    /\ log_file = <<>>
    /\ running = FALSE
    /\ batch_thread = 0
    /\ loops = <<>>
    /\ since_save = save_interval_log
    /\ joiner = NotJoining
    /\ store_calls = {}

ServiceInit ==
    /\ now = StartTime
    /\ ticks = 0
    /\ rows = <<>>
    /\ next_id = 1
    /\ last_save_time = 0
    /\ calls = 0
    /\ call = NoCall
    /\ ret = None
    /\ hits = <<>>
    /\ seen = <<>>
    /\ last_accepted = 0
    /\ proc = [p \in Callers |-> Idle]

Init ==
    /\ ServiceInit
    /\ LoggerInit
    /\ raw_text = <<>>
    /\ validated = NotValidated

Next == AddOrUpdateDetection \/ AddDetectionIfAllowed \/ Tick

Spec == Init /\ [][Next]_vars

----------------------------------------------------------------------------
(* SpecValues: what one call writes.  Direct calls over every combination   *)
(* of the observation's values, inside the match window of the calls before *)
(* them or after it has run out.                                            *)

AddOrUpdateDetectionValues ==
    /\ calls < MaxValueCalls
    /\ \E plate_text \in PlateTexts, confidence \in Confidences,
          location \in Locations, coordinates \in CoordinateInputs,
          findFails \in BOOLEAN, writeFails \in BOOLEAN :
            AddOrUpdateBody("add_or_update_detection", plate_text, confidence,
                            location, coordinates, findFails, writeFails)

\* the clock passes the end of a match window opened now
WindowRunsOut ==
    /\ ticks < MaxValueTicks
    /\ now' = now + time_window_minutes * 60 + 1
    /\ ticks' = ticks + 1
    /\ UNCHANGED <<rows, next_id, last_save_time, calls, call, ret, hits, seen,
                   last_accepted, proc>>
    /\ UNCHANGED validator_vars
    /\ UNCHANGED logger_vars

NextValues == AddOrUpdateDetectionValues \/ WindowRunsOut

SpecValues == Init /\ [][NextValues]_vars

----------------------------------------------------------------------------
(* SpecPlaceholder: calls without plate text among calls with a text of the *)
(* same form as the generated ones.                                         *)

PlaceholderTexts == {"", "PLATE_0002"}

AddOrUpdateDetectionPlaceholder ==
    /\ calls < MaxPlaceholderCalls
    /\ \E plate_text \in PlaceholderTexts, countFails \in BOOLEAN,
          findFails \in BOOLEAN, writeFails \in BOOLEAN :
            IF plate_text = "" /\ countFails
            THEN AddOrUpdateCountFails("add_or_update_detection", FixedConfidence,
                                       FixedLocation, FixedCoordinates)
            ELSE AddOrUpdateBody("add_or_update_detection", plate_text, FixedConfidence,
                                 FixedLocation, FixedCoordinates, findFails, writeFails)

NextPlaceholder == AddOrUpdateDetectionPlaceholder \/ WindowRunsOut

SpecPlaceholder == Init /\ [][NextPlaceholder]_vars

----------------------------------------------------------------------------
(* SpecReview: sightings are flagged and verified by an operator between    *)
(* the reconcile calls.                                                     *)

\* update_plate(plate_id, updates): the table afterwards.  updates gives the
\* new values by column, a column id is left out, and an unknown plate_id
\* changes no row
UpdatePlate(tbl, plate_id, updates) ==
    [i \in DOMAIN tbl |->
        IF tbl[i].id = plate_id
        THEN [column \in DOMAIN tbl[i] |->
                 IF column \in DOMAIN updates \ {"id"} THEN updates[column]
                 ELSE tbl[i][column]]
        ELSE tbl[i]]

\* flag_plate(plate_id, reason); storeFails: the UPDATE raises
FlagPlate ==
    /\ \E plate_id \in 1..next_id, storeFails \in BOOLEAN :
         rows' = IF storeFails THEN rows
                 ELSE UpdatePlate(rows, plate_id, [status |-> "flagged"])
    /\ UNCHANGED <<now, ticks, next_id, last_save_time, calls, call, ret, hits, seen,
                   last_accepted, proc>>
    /\ UNCHANGED validator_vars
    /\ UNCHANGED logger_vars

\* the texts an operator verifies a sighting as; no text keeps the sighting's
NoVerifiedText == ""
VerifiedTexts == PlateTexts \cup {NoVerifiedText}

\* verify_plate(plate_id, verified_text); storeFails: the UPDATE raises
VerifyPlate ==
    /\ \E plate_id \in 1..next_id, verified_text \in VerifiedTexts,
          storeFails \in BOOLEAN :
         rows' = IF storeFails THEN rows
                 ELSE UpdatePlate(rows, plate_id,
                                  IF verified_text # NoVerifiedText
                                  THEN [status |-> "verified", plate_text |-> verified_text]
                                  ELSE [status |-> "verified"])
    /\ UNCHANGED <<now, ticks, next_id, last_save_time, calls, call, ret, hits, seen,
                   last_accepted, proc>>
    /\ UNCHANGED validator_vars
    /\ UNCHANGED logger_vars

\* a direct call, from one of two camera positions
AddOrUpdateDetectionReview ==
    /\ calls < MaxReviewCalls
    /\ \E plate_text \in PlateTexts, location \in Locations,
          findFails \in BOOLEAN, writeFails \in BOOLEAN :
            AddOrUpdateBody("add_or_update_detection", plate_text, FixedConfidence,
                            location, FixedCoordinates, findFails, writeFails)

NextReview == AddOrUpdateDetectionReview \/ FlagPlate \/ VerifyPlate

SpecReview == Init /\ [][NextReview]_vars

----------------------------------------------------------------------------
(* SpecConcurrent: two ingestion sources call add_or_update_detection at    *)
(* the same time.  The lookup (find_recent_detection) and the write         *)
(* (update_plate or _create_new_detection) of a call are separate store     *)
(* operations, each on a connection of its own, and the steps of the two    *)
(* calls interleave.                                                        *)

\* (mutant) the write acts on a lookup repeated at the time of the write
WriteSeesFresh(recent, tbl, plate_text, t) ==
    LET found == FindRecentDetection(tbl, plate_text, time_window_minutes, t)
    IN  IF found = {} THEN <<>> ELSE <<tbl[CHOOSE i \in found : TRUE]>>

\* the write acts on recent_detection, the snapshot its lookup returned
WriteSees(recent, tbl, plate_text, t) == recent

\* entry: current_time = time.time()
ConcEnter(p) ==
    /\ calls < MaxConcurrentCalls
    /\ proc[p].pc \in {"idle", "done"}
    /\ \E plate_text \in PlateTexts, findFails \in BOOLEAN, writeFails \in BOOLEAN :
         proc' = [proc EXCEPT ![p] =
                     [Idle EXCEPT !.pc = "lookup", !.plate_text = plate_text,
                                  !.findFails = findFails, !.writeFails = writeFails,
                                  !.current_time = now]]
    /\ calls' = calls + 1
    /\ UNCHANGED <<now, ticks, rows, next_id, last_save_time, call, ret, hits, seen,
                   last_accepted>>
    /\ UNCHANGED validator_vars
    /\ UNCHANGED logger_vars

\* recent_detection = self.find_recent_detection(plate_text, 10)
ConcLookup(p) ==
    /\ proc[p].pc = "lookup"
    /\ LET found == LookupResult(rows, proc[p].plate_text, now, proc[p].findFails)
       IN  IF found = {}
           THEN proc' = [proc EXCEPT ![p].pc = "write", ![p].recent = <<>>]
           ELSE \E i \in found :
                  proc' = [proc EXCEPT ![p].pc = "write", ![p].recent = <<rows[i]>>]
    /\ UNCHANGED <<now, ticks, rows, next_id, last_save_time, calls, call, ret, hits, seen,
                   last_accepted>>
    /\ UNCHANGED validator_vars
    /\ UNCHANGED logger_vars

\* the branch taken on recent_detection, its store write and the return
ConcWrite(p) ==
    /\ proc[p].pc = "write"
    /\ LET me == proc[p]
           recent_detection == WriteSees(me.recent, rows, me.plate_text, now)
       IN  IF recent_detection = <<>>
           THEN IF ~me.writeFails
                THEN /\ rows' = Append(rows, NewRow(next_id, me.plate_text,
                                          FixedConfidence, FixedLocation,
                                          FixedCoordinates, now))
                     /\ next_id' = next_id + 1
                     /\ hits' = Append(hits, 1)
                     /\ seen' = Append(seen, {Observation(FixedConfidence,
                                                          FixedCoordinates)})
                     /\ last_save_time' = MarkSaved(me.current_time)
                     /\ proc' = [proc EXCEPT ![p].pc = "done", ![p].path = "create",
                                             ![p].plate_id = next_id,
                                             ![p].is_new = TRUE]
                ELSE /\ proc' = [proc EXCEPT ![p].pc = "done", ![p].path = "create",
                                             ![p].plate_id = CreateFailureId,
                                             ![p].is_new = FALSE]
                     /\ UNCHANGED <<rows, next_id, hits, seen, last_save_time>>
           ELSE LET recent == recent_detection[1]
                    i == IndexOf(rows, recent.id)
                IN  IF ~me.writeFails /\ i # 0
                    THEN /\ rows' = [rows EXCEPT ![i] =
                                       UpdatedRow(rows[i], recent, FixedConfidence,
                                                  FixedLocation, FixedCoordinates, now)]
                         /\ hits' = [hits EXCEPT ![i] = @ + 1]
                         /\ seen' = [seen EXCEPT ![i] =
                                @ \cup {Observation(FixedConfidence, FixedCoordinates)}]
                         /\ last_save_time' = MarkSaved(me.current_time)
                         /\ proc' = [proc EXCEPT ![p].pc = "done", ![p].path = "update",
                                                 ![p].plate_id = recent.id,
                                                 ![p].is_new = FALSE]
                         /\ UNCHANGED next_id
                    ELSE /\ proc' = [proc EXCEPT ![p].pc = "done", ![p].path = "update",
                                                 ![p].plate_id = UpdateFailureId(recent.id),
                                                 ![p].is_new = FALSE]
                         /\ UNCHANGED <<rows, next_id, hits, seen, last_save_time>>
    /\ UNCHANGED <<now, ticks, calls, call, ret, last_accepted>>
    /\ UNCHANGED validator_vars
    /\ UNCHANGED logger_vars

\* time passes between the steps of the callers
ConcTick ==
    /\ ticks < MaxConcurrentTicks
    /\ \E d \in TickSteps : now' = now + d
    /\ ticks' = ticks + 1
    /\ UNCHANGED <<rows, next_id, last_save_time, calls, call, ret, hits, seen,
                   last_accepted, proc>>
    /\ UNCHANGED validator_vars
    /\ UNCHANGED logger_vars

NextConcurrent ==
    \/ \E p \in Callers : ConcEnter(p)
    \/ \E p \in Callers : ConcLookup(p)
    \/ \E p \in Callers : ConcWrite(p)
    \/ ConcTick

SpecConcurrent == Init /\ [][NextConcurrent]_vars

----------------------------------------------------------------------------
(* SpecValidator: validate_and_normalize applied to one text.  The texts    *)
(* are every text of up to the longest allowed length over an alphabet with *)
(* one character of each kind the validator distinguishes, every text one   *)
(* character longer over a digit, a letter and two characters that strip()  *)
(* removes, and the texts that differ from a known plate reading in up to   *)
(* MaxChanged characters, over the full alphabet.                           *)

\* a digit the second part corrects, a digit it leaves, a letter the first part
\* corrects, a letter it leaves, the space, and a character of neither kind
KindAlphabet == {"5", "3", "O", "U", " ", "-"}

\* the characters of the texts that are too long unless stripped
LongAlphabet == {"5", "U", " ", "\t"}

FullAlphabet ==
    Digits \cup Letters \cup Whitespace \cup {"a", "o", "u", "z", "-", "_"}

Readings ==
    { <<"5", "1", "8", " ", "U", "O", "Z">>,
      <<"A", "B", "C", " ", "1", "2", "3">>,
      <<"5", "1", "8", "U", "O", "Z">>,
      <<"A", "B", "C", "1", "2", "3">>,
      <<"5", "I", "8", " ", "U", "0", "Z">>,
      <<"A", "B", "0", " ", "I", "2", "3">>,
      <<"B", "I", "G", "0", "1", "2">>,
      <<" ", "5", "1", "8", " ", "u", "o", "z">> }

\* text with the characters at the positions at[k] replaced by to[k]
RECURSIVE ChangedAt(_, _, _)
ChangedAt(text, at, to) ==
    IF at = <<>> THEN text
    ELSE ChangedAt([text EXCEPT ![at[1]] = to[1]], Tail(at), Tail(to))

InitValidator ==
    /\ ServiceInit
    /\ LoggerInit
    /\ \/ \E n \in 0..MaxCleanLength : raw_text \in [1..n -> KindAlphabet]
       \/ raw_text \in [1..(MaxCleanLength + 1) -> LongAlphabet]
       \/ \E text \in Readings :
            \E at \in [1..MaxChanged -> DOMAIN text],
               to \in [1..MaxChanged -> FullAlphabet] :
                 raw_text = ChangedAt(text, at, to)
       \/ raw_text = PyNone
    /\ validated = NotValidated

\* PlateValidator.validate_and_normalize(raw_text)
Validate ==
    /\ validated = NotValidated
    /\ validated' = ValidateAndNormalize(raw_text)
    /\ UNCHANGED raw_text
    /\ UNCHANGED service_vars
    /\ UNCHANGED logger_vars

NextValidator == Validate

SpecValidator == InitValidator /\ [][NextValidator]_vars

----------------------------------------------------------------------------
(* The legacy service, app/services/license_plate_service.py: add_detection *)
(* validates the text and inserts one row per accepted detection.  Plate    *)
(* texts are sequences of characters, as for the validator.                 *)

\* the number of the generated text is taken modulo 1000 and written with
\* three digits: f"{(count + 1) % 1000:03d} ABC"
GeneratedModulus == 1000
GeneratedPlate(count) ==
    LET n == (count + 1) % GeneratedModulus
    IN  <<DigitChars[(n \div 100) + 1], DigitChars[((n \div 10) % 10) + 1],
          DigitChars[(n % 10) + 1], " ", "A", "B", "C">>

\* (mutant) the text is inserted as it was given
InsertedTextGiven(plate_text, normalized_plate) == plate_text

\* "plate_text = normalized_plate  # Use normalized format"
InsertedText(plate_text, normalized_plate) == normalized_plate

\* the row of INSERT INTO license_plates (plate_text, confidence, location,
\* coordinates, status)
LegacyRow(id, plate_text, confidence, location, coordinates) ==
    [id |-> id,
     plate_text |-> plate_text,
     confidence |-> Round2(confidence),
     location |-> location,
     coordinates |-> IF Truthy(coordinates) THEN JsonDumps(coordinates) ELSE SqlNull,
     status |-> "detected"]

\* the texts handed to add_detection directly
LegacyTexts ==
    { <<>>,
      <<"5", "1", "8", "U", "O", "Z">>,
      <<"5", "1", "8", " ", "U", "O", "Z">>,
      <<"5", "1", "8", "-", "U", "O", "Z">>,
      <<"5", "I", "8", " ", "U", "0", "Z">>,
      <<"A", "B", "C", "1", "2", "3">> }

\* the texts the camera loop hands to log_detection, which reach add_detection
\* in a batch run
LoggerTexts ==
    { <<"5", "1", "8", " ", "U", "O", "Z">>,
      <<"5", "1", "8", "-", "U", "O", "Z">> }

\* validate_and_normalize on these texts, evaluated once for each
KnownResults == {<<t, ValidateAndNormalize(t)>> : t \in LegacyTexts \cup LoggerTexts}

\* PlateValidator.validate_and_normalize(plate_text) as add_detection calls it
ValidationOf(plate_text) ==
    IF \E known \in KnownResults : known[1] = plate_text
    THEN (CHOOSE known \in KnownResults : known[1] = plate_text)[2]
    ELSE ValidateAndNormalize(plate_text)

\* what add_detection returns when the text is rejected or an exception is caught
LegacyFailureId == -1

\* the outcome of add_detection on table tbl with AUTO_INCREMENT counter nid:
\* the id returned, the table and the counter after the call.  storeFails: a
\* statement on the store raises, which the except branch turns into -1.
AddDetectionOutcome(tbl, nid, plate_text, confidence, location, coordinates, storeFails) ==
    LET Failed == [plate_id |-> LegacyFailureId, rows |-> tbl, next_id |-> nid]
        Inserted(text) ==
            [plate_id |-> nid,
             rows |-> Append(tbl, LegacyRow(nid, text, confidence, location, coordinates)),
             next_id |-> nid + 1]
    IN  IF plate_text = <<>> \/ plate_text = PyNone
        THEN IF storeFails THEN Failed
             ELSE Inserted(GeneratedPlate(CountRows(tbl)))
        ELSE LET result == ValidationOf(plate_text)
             IN  IF ~result.is_valid THEN Failed
                 ELSE IF storeFails THEN Failed
                 ELSE Inserted(InsertedText(plate_text, result.normalized))

(* SpecLegacy: direct calls of the legacy add_detection with plate readings, *)
(* the empty text and a text with a dash, with and without a failing store.  *)

MaxLegacyCalls == 2

LegacyCoordinates == {<<>>, <<1, 2, 3, 4>>}

AddDetectionLegacy ==
    /\ calls < MaxLegacyCalls
    /\ \E plate_text \in LegacyTexts, confidence \in Confidences,
          coordinates \in LegacyCoordinates, storeFails \in BOOLEAN :
          LET current_time == now
              out == AddDetectionOutcome(rows, next_id, plate_text, confidence,
                                         FixedLocation, coordinates, storeFails)
          IN  /\ calls' = calls + 1
              /\ call' = [fn |-> "add_detection", given |-> plate_text,
                          confidence |-> confidence, location |-> FixedLocation,
                          coordinates |-> coordinates, storeFails |-> storeFails,
                          at |-> current_time]
              /\ ret' = out.plate_id
              /\ rows' = out.rows
              /\ next_id' = out.next_id
              /\ last_save_time' = IF out.plate_id > 0 THEN current_time
                                   ELSE last_save_time
    /\ UNCHANGED <<now, ticks, hits, seen, last_accepted, proc>>
    /\ UNCHANGED validator_vars
    /\ UNCHANGED logger_vars

NextLegacy == AddDetectionLegacy

SpecLegacy == Init /\ [][NextLegacy]_vars

----------------------------------------------------------------------------
(* The detection logger, app/services/detection_logger.py.  log_detection   *)
(* appends a detection to the log file and to the queue; a background loop  *)
(* takes the queue to the store every batch_interval seconds.  The logger   *)
(* reads the clock only to compare differences, so the model keeps the      *)
(* differences: the time since the last logged detection and, per loop, the *)
(* time since last_batch_time, each up to the interval it is compared with. *)

\* how many calls of log_detection and how many loop threads a behaviour has
MaxLogCalls == 2
MaxLoops == 2

Min(a, b) == IF a < b THEN a ELSE b

\* database_id of a detection that has none: detection.get('database_id') is None
NoDatabaseId == 0

\* detection_data; the id stands for f"det_{int(current_time * 1000)}", one per
\* logged detection
DetectionData(id, plate_text, confidence, location, coordinates) ==
    [id |-> id,
     plate_text |-> plate_text,
     confidence |-> Round2(confidence),
     location |-> location,
     coordinates |-> IF Truthy(coordinates) THEN JsonDumps(coordinates) ELSE SqlNull,
     status |-> "detected",
     processed |-> FALSE,
     database_id |-> NoDatabaseId]

\* can_log_detection
CanLogDetection == since_save >= save_interval_log

\* log_detection, called by the camera loop
LogDetectionBody(plate_text, confidence, location, coordinates) ==
    /\ calls' = calls + 1
    /\ call' = [fn |-> "log_detection", plate_text |-> plate_text,
                confidence |-> confidence, location |-> location,
                coordinates |-> coordinates, since_save |-> since_save,
                draining |-> \E t \in DOMAIN loops : loops[t].pc = "collect"]
    /\ IF ~CanLogDetection
       THEN /\ ret' = FALSE
            /\ UNCHANGED <<log_file, logs_queue, since_save>>
       ELSE LET detection_data ==
                    DetectionData(Len(log_file) + 1, plate_text, confidence,
                                  location, coordinates)
            IN  /\ log_file' = Append(log_file, detection_data)
                /\ logs_queue' = Append(logs_queue, detection_data)
                /\ since_save' = 0
                /\ ret' = TRUE
    /\ UNCHANGED <<now, ticks, rows, next_id, last_save_time, hits, seen,
                   last_accepted, proc>>
    /\ UNCHANGED validator_vars
    /\ UNCHANGED <<running, batch_thread, loops, joiner, store_calls>>

\* a thread at the top of _batch_processor_loop: last_batch_time = time.time()
NewLoop == [pc |-> "test", since_batch |-> 0, since_read |-> 0, batch |-> <<>>, k |-> 0]

\* start_batch_processor; called while running it returns at once
StartBatchProcessor ==
    /\ joiner.pc = "idle"
    /\ ~running
    /\ Len(loops) < MaxLoops
    /\ running' = TRUE
    /\ loops' = Append(loops, NewLoop)
    /\ batch_thread' = Len(loops) + 1
    /\ UNCHANGED <<logs_queue, log_file, since_save, joiner, store_calls>>
    /\ UNCHANGED service_vars
    /\ UNCHANGED validator_vars

\* stop_batch_processor up to its join
StopBatchProcessor ==
    /\ joiner.pc = "idle"
    /\ running' = FALSE
    /\ joiner' = IF batch_thread # 0 THEN [pc |-> "joining", waited |-> 0]
                 ELSE joiner
    /\ UNCHANGED <<logs_queue, log_file, batch_thread, loops, since_save, store_calls>>
    /\ UNCHANGED service_vars
    /\ UNCHANGED validator_vars

\* self.batch_thread.join(timeout=2)
join_timeout == 2

\* the loop is inside _process_batch_to_database
InBatch(loop) == loop.pc \in {"collect", "save"}

\* the loop is among the calls on the store, which take their time; elsewhere
\* it sleeps 0.5 s at most before it tests running
InStoreCalls(loop) == loop.pc = "save"

\* join returns: the thread has ended, or 2 seconds have passed while it is
\* among the calls on the store
JoinReturns ==
    /\ joiner.pc = "joining"
    /\ \/ loops[batch_thread].pc = "done"
       \/ joiner.waited >= join_timeout /\ InStoreCalls(loops[batch_thread])
    /\ joiner' = NotJoining
    /\ UNCHANGED <<logs_queue, log_file, running, batch_thread, loops, since_save,
                   store_calls>>
    /\ UNCHANGED service_vars
    /\ UNCHANGED validator_vars

\* one pass of "while self.running" that does something: the loop ends, or the
\* interval has passed and _process_batch_to_database is entered; it returns at
\* once when the queue is empty.  A pass before the interval has passed only
\* sleeps.
LoopTest(t) ==
    /\ loops[t].pc = "test"
    /\ IF ~running
       THEN loops' = [loops EXCEPT ![t] = [@ EXCEPT !.pc = "done", !.since_batch = 0]]
       ELSE /\ loops[t].since_batch >= batch_interval
            /\ IF logs_queue = <<>>
               THEN loops' = [loops EXCEPT ![t] = [@ EXCEPT !.since_batch = 0]]
               ELSE loops' = [loops EXCEPT ![t] =
                                [@ EXCEPT !.pc = "collect", !.since_read = 0,
                                          !.batch = <<>>, !.k = 0]]
    /\ UNCHANGED <<logs_queue, log_file, running, batch_thread, since_save, joiner,
                   store_calls>>
    /\ UNCHANGED service_vars
    /\ UNCHANGED validator_vars

\* the batch run is over: "last_batch_time = current_time", the time read before
\* the run
BackToTest(loop) ==
    [loop EXCEPT !.pc = "test", !.since_batch = loop.since_read, !.since_read = 0]

\* (mutant) taking one detection empties the queue
RemainingNone(queue) == <<>>

\* the queue after get_nowait
Remaining(queue) == Tail(queue)

\* "while not self.logs_queue.empty(): get_nowait()", one detection per step;
\* then the import and the construction of the service.  raises: one of them
\* raises, and the except branch puts the detections back on the queue.
LoopCollectBody(t, Raises) ==
    /\ loops[t].pc = "collect"
    /\ IF logs_queue # <<>>
       THEN /\ loops' = [loops EXCEPT ![t].batch = Append(@, Head(logs_queue))]
            /\ logs_queue' = Remaining(logs_queue)
       ELSE IF loops[t].batch = <<>>
       THEN /\ loops' = [loops EXCEPT ![t] = BackToTest(@)]
            /\ UNCHANGED logs_queue
       ELSE \E raises \in Raises :
              IF raises
              THEN /\ logs_queue' = logs_queue \o loops[t].batch
                   /\ loops' = [loops EXCEPT ![t] = BackToTest(@)]
              ELSE /\ loops' = [loops EXCEPT ![t] = [@ EXCEPT !.pc = "save", !.k = 1]]
                   /\ UNCHANGED logs_queue
    /\ UNCHANGED <<log_file, running, batch_thread, since_save, joiner, store_calls>>
    /\ UNCHANGED service_vars
    /\ UNCHANGED validator_vars

LoopCollect(t) == LoopCollectBody(t, BOOLEAN)

\* "if plate_id > 0": the detection is marked
Marked(detection, plate_id) ==
    IF plate_id > 0
    THEN [detection EXCEPT !.processed = TRUE, !.database_id = plate_id]
    ELSE detection

\* one turn of "for detection in batch_detections": service.add_detection
LoopSave(t) ==
    /\ loops[t].pc = "save"
    /\ loops[t].k <= Len(loops[t].batch)
    /\ \E storeFails \in BOOLEAN :
          LET detection == loops[t].batch[loops[t].k]
              coords == IF detection.coordinates = SqlNull THEN <<>>
                        ELSE <<detection.coordinates.x, detection.coordinates.y,
                               detection.coordinates.w, detection.coordinates.h>>
              out == AddDetectionOutcome(rows, next_id, detection.plate_text,
                                         detection.confidence, detection.location,
                                         coords, storeFails)
          IN  /\ rows' = out.rows
              /\ next_id' = out.next_id
              /\ loops' = [loops EXCEPT ![t] =
                             [@ EXCEPT !.batch[loops[t].k] =
                                           Marked(detection, out.plate_id),
                                       !.k = @ + 1]]
              /\ store_calls' = store_calls \cup
                                  {[detection |-> detection.id,
                                    plate_id |-> out.plate_id]}
    /\ UNCHANGED <<now, ticks, last_save_time, calls, call, ret, hits, seen,
                   last_accepted, proc>>
    /\ UNCHANGED validator_vars
    /\ UNCHANGED <<logs_queue, log_file, running, batch_thread, since_save, joiner>>

\* _update_log_file_processed_flags: every detection of the batch is flagged in
\* the file, with the database_id it has in the batch
UpdatedFlags(file, processed_detections) ==
    [i \in DOMAIN file |->
        IF \E j \in DOMAIN processed_detections :
              processed_detections[j].id = file[i].id
        THEN LET j == CHOOSE j \in DOMAIN processed_detections :
                         processed_detections[j].id = file[i].id
             IN  [file[i] EXCEPT !.processed = TRUE,
                                 !.database_id = processed_detections[j].database_id]
        ELSE file[i]]

\* the end of the batch run
LoopFinish(t) ==
    /\ loops[t].pc = "save"
    /\ loops[t].k > Len(loops[t].batch)
    /\ log_file' = UpdatedFlags(log_file, loops[t].batch)
    /\ loops' = [loops EXCEPT ![t] = BackToTest(@)]
    /\ UNCHANGED <<logs_queue, running, batch_thread, since_save, joiner, store_calls>>
    /\ UNCHANGED service_vars
    /\ UNCHANGED validator_vars

\* time passes
Aged(loop, d) ==
    IF loop.pc = "done" THEN loop
    ELSE [loop EXCEPT !.since_batch = Min(@ + d, batch_interval),
                      !.since_read = IF InBatch(loop) THEN Min(@ + d, batch_interval)
                                     ELSE 0]

LoggerTickSteps == {2, 10}

LoggerTick ==
    /\ \E d \in LoggerTickSteps :
          /\ since_save' = Min(since_save + d, save_interval_log)
          /\ loops' = [t \in DOMAIN loops |-> Aged(loops[t], d)]
          /\ joiner' = IF joiner.pc = "joining"
                       THEN [joiner EXCEPT !.waited = Min(@ + d, join_timeout)]
                       ELSE joiner
    /\ UNCHANGED <<logs_queue, log_file, running, batch_thread, store_calls>>
    /\ UNCHANGED service_vars
    /\ UNCHANGED validator_vars

(* SpecLogger: the camera loop logs a valid and an invalid reading while    *)
(* the page starts and stops the batch processor and the loops run.         *)

LogDetection ==
    /\ calls < MaxLogCalls
    /\ \E plate_text \in LoggerTexts :
          LogDetectionBody(plate_text, FixedConfidence, FixedLocation, FixedCoordinates)

NextLogger ==
    \/ LogDetection
    \/ StartBatchProcessor
    \/ StopBatchProcessor
    \/ JoinReturns
    \/ \E t \in DOMAIN loops : LoopTest(t)
    \/ \E t \in DOMAIN loops : LoopCollect(t)
    \/ \E t \in DOMAIN loops : LoopSave(t)
    \/ \E t \in DOMAIN loops : LoopFinish(t)
    \/ LoggerTick

SpecLogger == Init /\ [][NextLogger]_vars

(* SpecLoggerLive: the batch processor is started and not stopped, the      *)
(* import and the construction of the service succeed, the loop thread is   *)
(* scheduled again and again and time passes.                               *)

LoopCollectQuiet(t) == LoopCollectBody(t, {FALSE})

NextLoggerLive ==
    \/ LogDetection
    \/ StartBatchProcessor
    \/ \E t \in DOMAIN loops : LoopTest(t)
    \/ \E t \in DOMAIN loops : LoopCollectQuiet(t)
    \/ \E t \in DOMAIN loops : LoopSave(t)
    \/ \E t \in DOMAIN loops : LoopFinish(t)
    \/ LoggerTick

\* a step of a loop thread; the processor is started once here, so there is
\* one thread at most
LoopStep ==
    \E t \in DOMAIN loops :
        LoopTest(t) \/ LoopCollectQuiet(t) \/ LoopSave(t) \/ LoopFinish(t)

SpecLoggerLive ==
    Init /\ [][NextLoggerLive]_vars /\ WF_vars(LoggerTick) /\ WF_vars(LoopStep)

----------------------------------------------------------------------------
(* Vocabulary of the properties *)

\* the step is a service call; call' and ret' then describe it
IsCall == calls' = calls + 1

\* the step is a call of add_or_update_detection itself
IsReconcile == IsCall /\ call'.fn = "add_or_update_detection"

\* the sightings of plate text T whose lastSeen is within 10 minutes of time t
\* (boundary inclusive), in table tbl
OpenAt(tbl, T, t) ==
    {i \in 1..Len(tbl) : tbl[i].plate_text = T /\ tbl[i].last_seen + 10 * 60 >= t}

\* those among S with the greatest lastSeen
Latest(tbl, S) == {i \in S : \A j \in S : tbl[j].last_seen <= tbl[i].last_seen}

Ids(tbl) == {tbl[i].id : i \in 1..Len(tbl)}

----------------------------------------------------------------------------
(* C1: in every state reached by reconcile calls issued one at a time,      *)
(* each plate text has at most one sighting whose lastSeen is within the    *)
(* 10 minute match window of the current time.                              *)
(* Refuted: a call whose lookup raises takes the CREATE path next to an     *)
(* open sighting of the same text.                                          *)
C1_AtMostOneOpenSighting ==
    \A T \in PlateTexts : Cardinality(OpenAt(rows, T, now)) <= 1

(* C2: a reconcile call for text T whose store operations succeed, made     *)
(* when some sighting of T has lastSeen >= now - 10 minutes, updates a      *)
(* sighting with the greatest such lastSeen (its lastSeen becomes now, its  *)
(* detectionCount grows by one), returns (that sighting's id, false) and    *)
(* adds no sighting; every other sighting stays as it was.                  *)
C2_UpdatesMostRecentOpenSighting ==
    [][(/\ IsReconcile
        /\ ~call'.findFails
        /\ ~call'.writeFails
        /\ OpenAt(rows, call'.plate_text, now) # {})
       => \E i \in Latest(rows, OpenAt(rows, call'.plate_text, now)) :
            /\ Len(rows') = Len(rows)
            /\ rows'[i].last_seen = now
            /\ rows'[i].detection_count = rows[i].detection_count + 1
            /\ \A j \in 1..Len(rows) : j # i => rows'[j] = rows[j]
            /\ ret' = [id |-> rows[i].id, isNew |-> FALSE, isNone |-> FALSE]]_vars

\* C2's case: an update of the later of two open sightings of one text
C2_Witness ==
    /\ call.fn = "add_or_update_detection"
    /\ call.path = "update"
    /\ ~call.writeFails
    /\ ret.id = call.matched
    /\ \E i, j \in 1..Len(rows) :
         /\ i # j
         /\ rows[i].plate_text = call.plate_text
         /\ rows[j].plate_text = call.plate_text
         /\ rows[i].id = ret.id
         /\ rows[i].last_seen = call.at
         /\ rows[i].detection_count = 2
         /\ rows[j].last_seen + 10 * 60 >= call.at
         /\ rows[j].last_seen < call.at

(* C3: a reconcile call for text T whose insert succeeds, made when every   *)
(* existing sighting of T has lastSeen older than now - 10 minutes, adds    *)
(* one sighting of T, returns (newId, true) with newId different from every *)
(* existing id, and leaves every existing sighting as it was.               *)
C3_CreatesAfterWindow ==
    [][(/\ IsReconcile
        /\ ~call'.writeFails
        /\ OpenAt(rows, call'.plate_text, now) = {})
       => /\ Len(rows') = Len(rows) + 1
          /\ \A i \in 1..Len(rows) : rows'[i] = rows[i]
          /\ rows'[Len(rows')].plate_text = call'.plate_text
          /\ rows'[Len(rows')].last_seen = now
          /\ rows'[Len(rows')].id \notin Ids(rows)
          /\ ret' = [id |-> rows'[Len(rows')].id, isNew |-> TRUE, isNone |-> FALSE]]_vars

\* C3's case: a second sighting created while an older one of the same text,
\* out of the window, stays as it was
C3_Witness ==
    /\ call.fn = "add_or_update_detection"
    /\ call.path = "create"
    /\ ~call.findFails
    /\ ret.isNew
    /\ \E i, j \in 1..Len(rows) :
         /\ rows[j].id = ret.id
         /\ rows[i].plate_text = call.plate_text
         /\ rows[j].plate_text = call.plate_text
         /\ rows[i].last_seen + 10 * 60 < call.at
         /\ rows[i].detection_count = 1

----------------------------------------------------------------------------
(* Claims about what one call writes, checked under SpecValues *)

\* the coordinates of an observation as a sighting holds them
Observed(coordinates) ==
    IF coordinates = <<>> THEN [null |-> TRUE]
    ELSE [x |-> coordinates[1], y |-> coordinates[2],
          w |-> coordinates[3], h |-> coordinates[4]]

\* the position of the sighting a call returned
Returned_i == CHOOSE i \in 1..Len(rows) : rows[i].id = ret'.id

\* the step is a reconcile call that took the UPDATE path and whose update
\* went through
IsUpdate ==
    /\ IsReconcile
    /\ ~call'.findFails
    /\ ~call'.writeFails
    /\ OpenAt(rows, call'.plate_text, now) # {}

(* C4: on the UPDATE path bestConfidence and bestCoordinates are replaced   *)
(* by the new observation's values if and only if the new confidence is     *)
(* strictly greater than the matched sighting's bestConfidence; otherwise   *)
(* both keep their values.                                                  *)
(* Refuted: a better observation without coordinates replaces               *)
(* bestConfidence and keeps the bestCoordinates of an earlier observation.  *)
C4_BestReplacedIffStrictlyGreater ==
    [][IsUpdate =>
         LET old == rows[Returned_i]
             new == rows'[Returned_i]
         IN  IF call'.confidence > old.best_confidence
             THEN /\ new.best_confidence = call'.confidence
                  /\ new.best_coordinates = Observed(call'.coordinates)
             ELSE /\ new.best_confidence = old.best_confidence
                  /\ new.best_coordinates = old.best_coordinates]_vars

(* C5: on the UPDATE path confidence, coordinates, latestLocation and       *)
(* lastSeen are always overwritten with the new observation's confidence,   *)
(* coordinates, location and the current time.                              *)
(* Refuted: an observation without coordinates leaves the coordinates of    *)
(* the previous observation in place.                                       *)
C5_LatestAlwaysOverwritten ==
    [][IsUpdate =>
         LET new == rows'[Returned_i]
         IN  /\ new.confidence = call'.confidence
             /\ new.coordinates = Observed(call'.coordinates)
             /\ new.latest_location = call'.location
             /\ new.last_seen = now]_vars

(* C6: a reconcile call for a text with no sighting inside the window,      *)
(* whose insert succeeds, adds exactly one sighting with confidence =       *)
(* bestConfidence = the confidence rounded to the nearest hundredth,        *)
(* coordinates = bestCoordinates = the observation's, detectionCount = 1,   *)
(* firstLocation = latestLocation = location and status detected, and       *)
(* returns (newId, true).                                                   *)
C6_CreateWritesFirstObservation ==
    [][(/\ IsReconcile
        /\ ~call'.writeFails
        /\ OpenAt(rows, call'.plate_text, now) = {})
       => /\ Len(rows') = Len(rows) + 1
          /\ SubSeq(rows', 1, Len(rows)) = rows
          /\ LET new == rows'[Len(rows')]
             IN  /\ new.plate_text = call'.plate_text
                 /\ new.confidence = new.best_confidence
                 /\ new.confidence % 10 = 0
                 /\ new.confidence - call'.confidence \in -5..5
                 /\ new.coordinates = Observed(call'.coordinates)
                 /\ new.best_coordinates = new.coordinates
                 /\ new.detection_count = 1
                 /\ new.first_location = call'.location
                 /\ new.latest_location = call'.location
                 /\ new.status = "detected"
                 /\ ret' = [id |-> new.id, isNew |-> TRUE, isNone |-> FALSE]]_vars

\* C6's case: a sighting created from an observation of confidence 0.904
\* with coordinates, held as 0.90
C6_Witness ==
    /\ call.fn = "add_or_update_detection"
    /\ call.path = "create"
    /\ call.confidence = 904
    /\ call.coordinates # <<>>
    /\ ret.isNew
    /\ \E i \in 1..Len(rows) :
         /\ rows[i].id = ret.id
         /\ rows[i].confidence = 900
         /\ rows[i].best_confidence = 900
         /\ rows[i].detection_count = 1

----------------------------------------------------------------------------
(* Claims about sightings over time, checked under Spec *)

(* C7: every sighting's detectionCount starts at 1, never decreases, and    *)
(* equals the number of successful reconcile calls that created or matched  *)
(* that sighting.                                                           *)
C7_DetectionCountCountsCalls ==
    /\ [](\A i \in 1..Len(rows) :
            rows[i].detection_count >= 1 /\ rows[i].detection_count = hits[i])
    /\ [][/\ \A i \in 1..Len(rows) :
               rows'[i].detection_count >= rows[i].detection_count
          /\ \A i \in (Len(rows) + 1)..Len(rows') :
               rows'[i].detection_count = 1]_vars

\* C7's case: a sighting created by one call and matched by two more
C7_Witness ==
    \E i \in 1..Len(rows) : rows[i].detection_count = 3 /\ hits[i] = 3

(* C8: when the create or the update of a reconcile call fails, the call    *)
(* returns the id -1 and the store is as it was before the call.            *)
(* Refuted: after a failed update the call returns the matched sighting's   *)
(* id, as it does after a successful one.                                   *)
C8_FailureReturnsSentinel ==
    [][(IsReconcile /\ call'.writeFails)
       => ret'.id = -1 /\ rows' = rows]_vars

(* C9: a call of add_detection_if_allowed made less than 3 seconds after    *)
(* the last save attempts nothing: the store and the watermark stay as      *)
(* they are and None is returned, whatever the plate text; and an           *)
(* observation saved through the throttle is at least 3 seconds later than  *)
(* the one saved through it before, whatever their plate texts.             *)
C9_ThrottleIsGlobal ==
    [][(IsCall /\ call'.fn = "add_detection_if_allowed")
       => /\ (now - last_save_time < 3)
                => /\ rows' = rows
                   /\ next_id' = next_id
                   /\ last_save_time' = last_save_time
                   /\ call'.path = "skip"
                   /\ ret' = [id |-> 0, isNew |-> FALSE, isNone |-> TRUE]
          /\ (rows' # rows)
                => /\ last_accepted' = now
                   /\ (last_accepted # 0 => now - last_accepted >= 3)]_vars

\* C9's case: a call for one plate skipped 2 seconds after another plate was
\* saved through the throttle
C9_Witness ==
    /\ call.fn = "add_detection_if_allowed"
    /\ call.path = "skip"
    /\ ret.isNone
    /\ call.at = last_accepted + 2
    /\ \E i \in 1..Len(rows) :
         rows[i].last_seen = last_accepted /\ rows[i].plate_text # call.plate_text

----------------------------------------------------------------------------
(* Claims about concurrent callers, checked under SpecConcurrent *)

\* caller p has returned from a call that took the CREATE path and inserted
Created(p) ==
    proc[p].pc = "done" /\ proc[p].path = "create" /\ proc[p].plate_id > 0

(* C10: when two reconcile calls for one plate text have their lookups and  *)
(* writes interleaved and no sighting of the text is open, both can take    *)
(* the CREATE path, and two sightings of the text are then inside the       *)
(* window.  As a property of every behaviour: a call whose lookup found     *)
(* nothing inserts at its write, whatever the table holds by then, and two  *)
(* calls that both inserted have added two different sightings.             *)
C10_CheckThenActCreatesTwice ==
    /\ [][\A p \in Callers :
            (/\ proc[p].pc = "write"
             /\ proc'[p].pc = "done"
             /\ proc[p].recent = <<>>
             /\ ~proc[p].writeFails)
            => /\ Len(rows') = Len(rows) + 1
               /\ rows'[Len(rows')].plate_text = proc[p].plate_text
               /\ rows'[Len(rows')].last_seen = now
               /\ proc'[p].path = "create"
               /\ proc'[p].plate_id = rows'[Len(rows')].id
               /\ proc'[p].is_new]_vars
    /\ [](\A p, q \in Callers :
            (p # q /\ Created(p) /\ Created(q))
            => /\ proc[p].plate_id # proc[q].plate_id
               /\ \E i, j \in 1..Len(rows) :
                    /\ i # j
                    /\ rows[i].id = proc[p].plate_id
                    /\ rows[j].id = proc[q].plate_id
                    /\ rows[i].plate_text = proc[p].plate_text
                    /\ rows[j].plate_text = proc[q].plate_text)

\* C10's case: both callers looked up "ABC 123" without a failure, both
\* created, and the two sightings are open together
C10_Witness ==
    /\ Created(1) /\ Created(2)
    /\ proc[1].plate_text = "ABC 123" /\ proc[2].plate_text = "ABC 123"
    /\ ~proc[1].findFails /\ ~proc[2].findFails
    /\ Cardinality(OpenAt(rows, "ABC 123", now)) = 2
    /\ Len(rows) = 2

----------------------------------------------------------------------------
(* Vocabulary of the properties of the validator *)

\* validate_and_normalize has returned for raw_text, a string
Validated == validated # NotValidated /\ raw_text # PyNone

\* the trimmed upper-cased text
Cleaned == Clean(raw_text)

\* three digits, one space, three letters
StrictNumericAlpha(t) ==
    /\ Len(t) = 7
    /\ \A i \in 1..3 : t[i] \in Digits
    /\ t[4] = " "
    /\ \A i \in 5..7 : t[i] \in Letters

\* three letters, one space, three digits
StrictAlphaNumeric(t) ==
    /\ Len(t) = 7
    /\ \A i \in 1..3 : t[i] \in Letters
    /\ t[4] = " "
    /\ \A i \in 5..7 : t[i] \in Digits

Strict(t) == StrictNumericAlpha(t) \/ StrictAlphaNumeric(t)

StrictType(t) == IF StrictNumericAlpha(t) THEN "numeric_alpha" ELSE "alpha_numeric"

\* the result (false, None, Invalid)
IsRejected(r) == ~r.is_valid /\ r.normalized = NoText /\ r.plate_type = "invalid"

\* the result (true, n, type)
IsAccepted(r, n, type) == r.is_valid /\ r.normalized = n /\ r.plate_type = type

\* the four candidates of a cleaned text, in their order
FourCandidates(t) ==
    <<t, FixSpacing(t), FixOcrErrors(t), FixOcrErrors(FixSpacing(t))>>

\* the characters A-Z, 0-9 and the space
PlateCharacters == Letters \cup Digits \cup {" "}

\* a character other than A-Z, 0-9 and the space
Foreign(c) == c \notin PlateCharacters

(* C11: validating a normalized text again accepts it and returns the same *)
(* text with the same plate type.                                          *)
C11_NormalizationIdempotent ==
    Validated /\ validated.is_valid =>
        IsAccepted(ValidateAndNormalize(validated.normalized),
                   validated.normalized, validated.plate_type)

\* a text was accepted in a form other than its cleaned text
C11_Witness ==
    /\ Validated /\ validated.is_valid
    /\ validated.normalized # Cleaned
    /\ HasSpace(Cleaned)

(* C12: for a cleaned text of allowed length the result is the first of    *)
(* the four candidates, in order, that matches the strict format, with     *)
(* type numeric_alpha when the digits come first and alpha_numeric         *)
(* otherwise; when none matches the text is rejected.                      *)
C12_FirstMatchingCandidate ==
    Validated =>
        \A clean \in {Cleaned} :
            Len(clean) \in MinCleanLength..MaxCleanLength =>
                \A c \in {FourCandidates(clean)} :
                    \A matching \in {{i \in 1..4 : Strict(c[i])}} :
                        IF matching = {} THEN IsRejected(validated)
                        ELSE \E first \in matching :
                               /\ \A j \in matching : first <= j
                               /\ IsAccepted(validated, c[first], StrictType(c[first]))

\* the second candidate was returned although the fourth matches as well and
\* is another text
C12_Witness ==
    /\ Validated /\ validated.is_valid
    /\ \E c \in {FourCandidates(Cleaned)} :
           /\ ~Strict(c[1])
           /\ Strict(c[2]) /\ Strict(c[4]) /\ c[2] # c[4]
           /\ validated.normalized = c[2]

(* C13: a text of six characters, three digits then three letters or three *)
(* letters then three digits, is accepted as the same characters with one  *)
(* space after the third; no character is substituted.                     *)
C13_UnspacedPlateAccepted ==
    Validated /\ Len(raw_text) = 6 =>
        \A up \in {Upper(raw_text)} :
            \/ (\A i \in 1..3 : up[i] \in Digits) /\ (\A i \in 4..6 : up[i] \in Letters)
            \/ (\A i \in 1..3 : up[i] \in Letters) /\ (\A i \in 4..6 : up[i] \in Digits)
            => /\ validated.is_valid
               /\ validated.normalized = SubSeq(up, 1, 3) \o <<" ">> \o SubSeq(up, 4, 6)

\* letters the first part would correct and digits the second part would
\* correct came back as they were
C13_Witness ==
    /\ Validated /\ validated.is_valid
    /\ raw_text = <<"O", "O", "O", "5", "5", "5">>
    /\ validated.normalized = <<"O", "O", "O", " ", "5", "5", "5">>

(* C14: a text whose cleaned form has a character other than A-Z, 0-9 and  *)
(* the space is rejected, and each of its candidates still has such a      *)
(* character.                                                              *)
C14_ForeignCharacterRejected ==
    Validated =>
        \A clean \in {Cleaned} :
            (\E i \in DOMAIN clean : Foreign(clean[i])) =>
                /\ IsRejected(validated)
                /\ \A c \in {FourCandidates(clean)} :
                      \A k \in 1..4 : \E i \in DOMAIN c[k] : Foreign(c[k][i])

\* a text with a foreign character in a part, of the shape of a plate
\* otherwise, went through the candidates and was rejected
C14_Witness ==
    /\ Validated /\ IsRejected(validated)
    /\ \E clean \in {Cleaned} :
           /\ Len(clean) = 7 /\ clean[4] = " "
           /\ Cardinality({i \in DOMAIN clean : Foreign(clean[i])}) = 1
    /\ validated.built = 4

\* the characters read as numbers and as letters
AsNumber ==
    ("O" :> "0") @@ ("I" :> "1") @@ ("S" :> "5") @@ ("J" :> "1") @@
    ("G" :> "6") @@ ("B" :> "8") @@ ("Z" :> "2") @@ ("T" :> "7")

AsLetter ==
    ("0" :> "O") @@ ("1" :> "I") @@ ("5" :> "S") @@ ("4" :> "A") @@
    ("6" :> "G") @@ ("8" :> "B") @@ ("2" :> "Z") @@ ("7" :> "T")

\* part with the characters in the domain of reading replaced, the others kept
ReadAs(part, reading) ==
    [i \in DOMAIN part |->
        IF part[i] \in DOMAIN reading THEN reading[part[i]] ELSE part[i]]

NumberLike == Digits \cup DOMAIN AsNumber
LetterLike == Letters \cup DOMAIN AsLetter

\* the first and the second group of three of a text 'XXX YYY' or 'XXXYYY'
GroupX(t) == SubSeq(t, 1, 3)
GroupY(t) == SubSeq(t, Len(t) - 2, Len(t))

\* t is 'XXX YYY' or 'XXXYYY', each X number-like and each Y letter-like
Correctable(t) ==
    /\ \/ Len(t) = 6
       \/ Len(t) = 7 /\ t[4] = " "
    /\ \A i \in 1..3 : GroupX(t)[i] \in NumberLike /\ GroupY(t)[i] \in LetterLike

\* t read as a plate of three numbers and three letters
ReadAsPlate(t) == ReadAs(GroupX(t), AsNumber) \o <<" ">> \o ReadAs(GroupY(t), AsLetter)

C16_LengthRejectedEarly ==
    Validated =>
        \A trimmed \in {Strip(raw_text)} :
            raw_text = <<>> \/ Len(trimmed) < 6 \/ Len(trimmed) > 7 =>
                IsRejected(validated) /\ validated.built = 0

\* a text of an allowed length was too short once trimmed
C16_Witness ==
    /\ Validated /\ IsRejected(validated)
    /\ Len(raw_text) = 7
    /\ Len(Strip(raw_text)) = 5
    /\ validated.built = 0

(* C17: the result is either valid, with a text of exactly 7 characters in *)
(* one of the two strict formats and the type that goes with the format,   *)
(* or invalid, with no text and the type invalid.                          *)
C17_ResultShape ==
    validated # NotValidated =>
        \/ /\ validated.is_valid
           /\ Len(validated.normalized) = 7
           /\ \/ /\ StrictNumericAlpha(validated.normalized)
                 /\ validated.plate_type = "numeric_alpha"
              \/ /\ StrictAlphaNumeric(validated.normalized)
                 /\ validated.plate_type = "alpha_numeric"
        \/ IsRejected(validated)

\* a text longer than allowed before trimming was accepted with letters first
C17_Witness ==
    /\ Validated /\ validated.is_valid
    /\ Len(raw_text) = 8
    /\ validated.plate_type = "alpha_numeric"

----------------------------------------------------------------------------
(* Properties of the reconciler, continued *)

\* PLATE_NNNN for a number below 10000: NNNN its four decimal digits
PlateNumbered(n) ==
    "PLATE_" \o DigitChars[((n \div 1000) % 10) + 1] \o DigitChars[((n \div 100) % 10) + 1]
             \o DigitChars[((n \div 10) % 10) + 1] \o DigitChars[(n % 10) + 1]

(* C18: a direct call without plate text whose store operations succeed    *)
(* goes on with the text PLATE_NNNN, NNNN the number of rows in the store  *)
(* plus one in four digits, and does with that text what a call does: it   *)
(* updates the most recent open sighting of the text if there is one and   *)
(* creates a sighting of the text otherwise.                               *)
C18_EmptyTextGetsPlaceholder ==
    [][IsReconcile /\ call'.given = "" /\ call'.path # "error"
         /\ ~call'.findFails /\ ~call'.writeFails =>
           /\ call'.plate_text = PlateNumbered(Len(rows) + 1)
           /\ LET open == OpenAt(rows, call'.plate_text, now)
              IN  IF open # {}
                  THEN /\ call'.path = "update"
                       /\ \E i \in Latest(rows, open) :
                             /\ call'.matched = rows[i].id
                             /\ ret' = Tuple(rows[i].id, FALSE)
                             /\ rows'[i].detection_count = rows[i].detection_count + 1
                       /\ Len(rows') = Len(rows)
                  ELSE /\ call'.path = "create"
                       /\ Len(rows') = Len(rows) + 1
                       /\ rows'[Len(rows')].plate_text = call'.plate_text
                       /\ ret' = Tuple(rows'[Len(rows')].id, TRUE)]_vars

\* a call without plate text met an open sighting of the text generated for it
C18_Witness ==
    /\ call.fn = "add_or_update_detection"
    /\ call.given = "" /\ call.plate_text = "PLATE_0002"
    /\ call.path = "update"
    /\ ret = Tuple(call.matched, FALSE)
    /\ \E i \in DOMAIN rows : rows[i].id = call.matched /\ rows[i].detection_count = 2

\* a confidence in thousandths that has two decimals
TwoDecimals(c) == c % 10 = 0

(* C19: every confidence and best confidence in the store is rounded to    *)
(* two decimals.                                                           *)
(* Refuted: the UPDATE path writes the confidence as it came.              *)
C19_StoredConfidencesRounded ==
    \A i \in 1..Len(rows) :
        TwoDecimals(rows[i].confidence) /\ TwoDecimals(rows[i].best_confidence)

(* C20: a reconcile call on the UPDATE path changes no sighting other than *)
(* the matched one, adds none, and leaves the id, the plate text, the      *)
(* status and the first location of the matched sighting as they were.     *)
C20_UpdateLeavesIdentityAndStatus ==
    [][IsUpdate =>
         /\ Len(rows') = Len(rows)
         /\ \E i \in 1..Len(rows) :
               /\ rows[i].id = call'.matched
               /\ \A j \in 1..Len(rows) : j # i => rows'[j] = rows[j]
               /\ rows'[i].id = rows[i].id
               /\ rows'[i].plate_text = rows[i].plate_text
               /\ rows'[i].status = rows[i].status
               /\ rows'[i].first_location = rows[i].first_location]_vars

\* a flagged sighting first seen at one position was updated by a call from
\* the other, next to a sighting of another plate
C20_Witness ==
    /\ call.path = "update" /\ ~call.findFails /\ ~call.writeFails
    /\ Len(rows) >= 2
    /\ \E i \in 1..Len(rows) :
          /\ rows[i].id = call.matched
          /\ rows[i].status = "flagged"
          /\ rows[i].detection_count = 2
          /\ rows[i].latest_location = call.location
          /\ rows[i].first_location # call.location
          /\ \E j \in 1..Len(rows) : rows[j].plate_text # rows[i].plate_text

----------------------------------------------------------------------------
(* The best observation of a sighting *)

\* the largest of a non-empty set of numbers
Maximum(S) == CHOOSE m \in S : \A n \in S : n <= m

\* the confidences of the observations reconciled into sighting i, each
\* rounded to two decimals
SeenConfidences(i) == {Round2(o.confidence) : o \in seen[i]}

(* C21: each sighting's bestConfidence equals the maximum confidence among  *)
(* the observations reconciled into it, each taken at two decimals, and is  *)
(* never lower than its current confidence.                                 *)
(* Refuted: the UPDATE path compares and stores the confidence as it came   *)
(* (see C19), so 0.904 replaces a best of 0.90 made of the same reading.    *)
C21_BestIsMaximumSeen ==
    \A i \in 1..Len(rows) :
        /\ rows[i].best_confidence = Maximum(SeenConfidences(i))
        /\ rows[i].best_confidence >= rows[i].confidence

(* C22: each sighting's bestCoordinates are the coordinates of an           *)
(* observation reconciled into it whose confidence is the one stored as     *)
(* bestConfidence, whether or not the calls carried coordinates.            *)
(* Refuted: a better observation without coordinates replaces               *)
(* bestConfidence and keeps the bestCoordinates of an earlier observation   *)
(* (see C4).                                                                *)
C22_BestCoordinatesOfBestObservation ==
    \A i \in 1..Len(rows) :
        \E o \in seen[i] :
            /\ rows[i].best_confidence \in {o.confidence, Round2(o.confidence)}
            /\ rows[i].best_coordinates = Observed(o.coordinates)

----------------------------------------------------------------------------
(* The throttle watermark *)

\* the service call of this step wrote to the store
IsSaved == IsCall /\ call'.path \in {"update", "create"} /\ ~call'.writeFails

\* the service call of this step failed: its create returned -1 or its
\* update returned False
IsFailed == IsCall /\ call'.path \in {"update", "create"} /\ call'.writeFails

(* C28: last_save_time is advanced only by a call of the reconciler that    *)
(* succeeds, which sets it to the time of the call; a call whose create or  *)
(* update fails leaves it as it was, so the throttle answers after the call *)
(* as it did before.                                                        *)
C28_WatermarkMovesOnSuccessOnly ==
    [][/\ (last_save_time' # last_save_time) => (IsSaved /\ last_save_time' = now)
       /\ IsFailed => /\ last_save_time' = last_save_time
                      /\ CanSaveDetection(now)' = CanSaveDetection(now)]_vars

\* C28's case: an update through the throttle failed 3 seconds after the last
\* save and the throttle is still open
C28_Witness ==
    /\ call.fn = "add_detection_if_allowed"
    /\ call.path = "update"
    /\ call.writeFails
    /\ last_save_time # 0
    /\ call.at = last_save_time + 3
    /\ now = call.at
    /\ CanSaveDetection(now)

----------------------------------------------------------------------------
(* Corrections and the plate type *)

\* a text of six characters with a space put after the third
SpaceInserted(t) ==
    IF Len(t) = 6 THEN SubSeq(t, 1, 3) \o <<" ">> \o SubSeq(t, 4, 6) ELSE t

\* the normalized text is the cleaned text, at most with the space inserted
OnlySpaced(clean, normalized) == normalized \in {clean, SpaceInserted(clean)}

----------------------------------------------------------------------------
(* Claims about the legacy service, checked under SpecLegacy *)

\* the step is a call of the legacy add_detection
IsAddDetection == IsCall /\ call'.fn = "add_detection"

(* C25: a call of the legacy add_detection with a non-empty text that fails *)
(* validation returns -1 and inserts no row; with a text that passes, and a *)
(* store that works, it inserts exactly one row, whose plate_text is the    *)
(* normalized text (518UOZ is stored as 518 UOZ), and returns that row's    *)
(* id, which is positive and new.                                           *)
C25_LegacyValidatesBeforeInsert ==
    [][IsAddDetection =>
         \A result \in {ValidateAndNormalize(call'.given)} :
            /\ (call'.given # <<>> /\ ~result.is_valid)
                  => ret' = -1 /\ rows' = rows
            /\ (call'.given # <<>> /\ result.is_valid /\ ~call'.storeFails)
                  => /\ Len(rows') = Len(rows) + 1
                     /\ SubSeq(rows', 1, Len(rows)) = rows
                     /\ rows'[Len(rows')].plate_text = result.normalized
                     /\ ret' = rows'[Len(rows')].id
                     /\ ret' > 0
                     /\ ret' \notin Ids(rows)
            /\ call'.given = <<"5", "1", "8", "-", "U", "O", "Z">> => ret' = -1
            /\ (call'.given = <<"5", "1", "8", "U", "O", "Z">> /\ ~call'.storeFails)
                  => rows'[Len(rows')].plate_text
                        = <<"5", "1", "8", " ", "U", "O", "Z">>]_vars

\* C25's case: after a call that inserted nothing, 518UOZ was inserted as
\* 518 UOZ and the id of the row was returned
C25_Witness ==
    /\ call.fn = "add_detection"
    /\ calls = 2
    /\ call.given = <<"5", "1", "8", "U", "O", "Z">>
    /\ Len(rows) = 1
    /\ rows[1].plate_text = <<"5", "1", "8", " ", "U", "O", "Z">>
    /\ ret = rows[1].id
    /\ ret > 0

----------------------------------------------------------------------------
(* Claims about the detection logger, checked under SpecLogger *)

\* the step is a call of log_detection
IsLogDetection == IsCall /\ call'.fn = "log_detection"

\* loop t leaves _process_batch_to_database in this step
BatchEnds(t) == t \in DOMAIN loops /\ InBatch(loops[t]) /\ loops'[t].pc = "test"

\* the ids of the detections on a queue
QueuedIds(queue) == {queue[i].id : i \in DOMAIN queue}

(* C23: when a batch run ends, each detection it took off the queue is      *)
(* either marked processed with a store id or on the queue again.           *)
(* Refuted: a detection for which add_detection returned -1 is neither      *)
(* marked nor put back.                                                     *)
C23_NoDetectionDropped ==
    [][\A t \in DOMAIN loops :
         BatchEnds(t) =>
            \A j \in DOMAIN loops'[t].batch :
               LET detection == loops'[t].batch[j]
               IN  \/ detection.processed /\ detection.database_id > 0
                   \/ detection.id \in QueuedIds(logs_queue')]_vars

(* C24: log_detection called with a text that fails validation returns      *)
(* False, writes nothing to the log file and puts nothing on the queue,      *)
(* whatever the time since the last logged detection.                        *)
(* Refuted: log_detection does not validate; 3 seconds after the last        *)
(* logged detection, or as the first call, 518-UOZ is logged and queued.     *)
C24_InvalidTextNotLogged ==
    [][(IsLogDetection /\ ~ValidateAndNormalize(call'.plate_text).is_valid)
         => /\ ret' = FALSE
            /\ log_file' = log_file
            /\ logs_queue' = logs_queue]_vars

\* the loops that have not ended
ActiveLoops == {t \in DOMAIN loops : loops[t].pc # "done"}

(* C30: at most one batch-processor loop is active at any time.             *)
(* Refuted: stop_batch_processor gives up its join after 2 seconds while    *)
(* the loop is inside a batch run; the next start_batch_processor sets      *)
(* running again and starts a second loop, and the first one goes on.       *)
C30_AtMostOneLoop == Cardinality(ActiveLoops) <= 1

----------------------------------------------------------------------------
(* Claims about the running batch processor, checked under SpecLoggerLive *)

\* the ids log_detection can have given out
DetectionIds == 1..MaxLogCalls

\* detection id is on the queue
Queued(id) == id \in QueuedIds(logs_queue)

\* a batch run has handed detection id to the store
Submitted(id) == \E c \in store_calls : c.detection = id

(* C27: while the batch processor is running, every detection that          *)
(* log_detection has put on the queue is eventually handed to the store by  *)
(* a batch run, also a detection put on the queue while a batch run is      *)
(* taking the queue.                                                        *)
C27_QueuedIsEventuallySubmitted ==
    \A id \in DetectionIds : (running /\ Queued(id)) ~> Submitted(id)

\* C27's case: the detection logged last was put on the queue while a batch
\* run was taking the queue, and has been handed to the store
C27_Witness ==
    /\ call.fn = "log_detection"
    /\ ret = TRUE
    /\ call.draining
    /\ running
    /\ Submitted(Len(log_file))
    /\ ~Queued(Len(log_file))

-----------------------------------------------------------------------------
(* The grouping logger (app/detection_logger_v2.py)                         *)
(*                                                                          *)
(* Its log_detection, queue and file are those of the logger above; its     *)
(* batch run groups the batch by plate text and hands the best detection of *)
(* each group to add_or_update_detection of the class it imports, which is  *)
(* app.services.license_plate_service.LicensePlateService.                  *)

MaxV2Calls == 4

\* the methods of app.services.license_plate_service.LicensePlateService
ImportedServiceMethods ==
    {"can_save_detection", "add_detection_if_allowed", "add_detection",
     "get_plates_for_table", "get_plates_for_table_paginated",
     "get_table_headers", "get_plate_by_id", "update_plate", "delete_plate",
     "get_plates_count", "get_todays_detections", "search_plates",
     "flag_plate", "verify_plate"}

\* the keys of plate_groups, in the order of their first detection
RECURSIVE GroupTexts(_)
GroupTexts(batch_detections) ==
    IF batch_detections = <<>> THEN <<>>
    ELSE LET first == Head(batch_detections).plate_text
             others == SelectSeq(Tail(batch_detections),
                                 LAMBDA d : d.plate_text # first)
         IN  <<first>> \o GroupTexts(others)

\* plate_groups[plate_text]
PlateGroup(batch_detections, plate_text) ==
    SelectSeq(batch_detections, LAMBDA d : d.plate_text = plate_text)

\* max(detections, key=lambda x: x['confidence']): the first of the greatest
BestDetection(detections) ==
    LET best == CHOOSE k \in DOMAIN detections :
                   /\ \A j \in DOMAIN detections :
                         detections[j].confidence <= detections[k].confidence
                   /\ \A j \in 1..(k - 1) :
                         detections[j].confidence < detections[k].confidence
    IN  detections[best]

\* the keyword arguments of the call for one group
GroupCall(detections) ==
    LET best_detection == BestDetection(detections)
    IN  [plate_text |-> best_detection.plate_text,
         confidence |-> best_detection.confidence,
         location |-> best_detection.location,
         coordinates |-> best_detection.coordinates]

\* for detection in batch_detections: self.logs_queue.put(detection)
PutBack(queue, batch_detections) == queue \o batch_detections

(* _process_batch_to_database of the grouping logger, one whole run.  The   *)
(* attribute lookup service.add_or_update_detection raises AttributeError   *)
(* for the first group, before any call is made and before any detection is *)
(* marked; the except branch puts the whole batch back on the queue.        *)
ProcessBatchV2 ==
    /\ logs_queue # <<>>
    /\ calls < MaxV2Calls
    /\ "add_or_update_detection" \notin ImportedServiceMethods
    /\ LET batch_detections == logs_queue
           first_group == PlateGroup(batch_detections,
                                     GroupTexts(batch_detections)[1])
       IN  /\ calls' = calls + 1
           /\ call' = [fn |-> "process_batch",
                       batch |-> batch_detections,
                       attempted |-> GroupCall(first_group),
                       raised |-> "AttributeError"]
           /\ ret' = FALSE
           /\ logs_queue' = PutBack(<<>>, batch_detections)
    /\ UNCHANGED <<log_file, store_calls>>
    /\ UNCHANGED <<now, ticks, rows, next_id, last_save_time, hits, seen,
                   last_accepted, proc>>
    /\ UNCHANGED validator_vars
    /\ UNCHANGED <<running, batch_thread, loops, since_save, joiner>>

\* the confidences of the readings, in thousandths
V2Confidences == {700, 900}

LogDetectionV2 ==
    /\ calls < MaxV2Calls
    /\ \E plate_text \in LoggerTexts, confidence \in V2Confidences :
          LogDetectionBody(plate_text, confidence, FixedLocation, FixedCoordinates)

(* SpecLoggerV2: the camera loop logs readings of two plates with two       *)
(* confidences, at least save_interval apart, and batch runs take the queue. *)
NextLoggerV2 ==
    \/ LogDetectionV2
    \/ ProcessBatchV2
    \/ LoggerTick

SpecLoggerV2 == Init /\ [][NextLoggerV2]_vars

IsProcessBatch == call'.fn = "process_batch" /\ calls' = calls + 1

\* the store calls a step makes
NewStoreCalls == store_calls' \ store_calls

\* the detections of the file that carry the ids of a group
FileEntries(file, detections) ==
    {file[k] : k \in {j \in DOMAIN file :
                         \E m \in DOMAIN detections : detections[m].id = file[j].id}}

(* C26: a batch run of the grouping logger makes exactly one store call for *)
(* each distinct plate text of the batch, with the confidence, location and *)
(* coordinates of that group's best detection, and when the call succeeds   *)
(* every detection of the group is marked processed with the returned id.   *)
C26_OneCallPerDistinctText ==
    [][IsProcessBatch =>
        \A g \in DOMAIN GroupTexts(call'.batch) :
           \A detections \in {PlateGroup(call'.batch, GroupTexts(call'.batch)[g])} :
              /\ Cardinality({c \in NewStoreCalls :
                                 c.plate_text = GroupTexts(call'.batch)[g]}) = 1
              /\ \A c \in NewStoreCalls :
                    c.plate_text = GroupTexts(call'.batch)[g] =>
                       /\ c.confidence = GroupCall(detections).confidence
                       /\ c.location = GroupCall(detections).location
                       /\ c.coordinates = GroupCall(detections).coordinates
                       /\ c.plate_id > 0 =>
                             \A d \in FileEntries(log_file', detections) :
                                d.processed /\ d.database_id = c.plate_id]_vars

====
